---- MODULE Spec2Model ----
(***************************************************************************)
(* Detection-and-confirmation engine of the Smart Hospital System          *)
(* (data_filtering.py): per-feature scalar Kalman filters, the Isolation   *)
(* Forest usage contract, the anomalies table and the module flags         *)
(* abnormal_detected / robot_moved that latch the alert.                   *)
(*                                                                         *)
(* Real numbers are exact rationals <<n, d>> in lowest terms with d > 0;   *)
(* the 1x1 numpy matrices of the filter are the rationals they hold.       *)
(* A database NULL is the pair <<0, 0>>.                                   *)
(***************************************************************************)
EXTENDS Integers, Sequences, FiniteSets, TLC

VARIABLES
    abnormal_detected,  \* module flag, data_filtering.py:51
    robot_moved,        \* module flag, data_filtering.py:50
    models,             \* sensors whose Isolation Forest was trained
    training_rows,      \* per sensor: rows of the CSV left after the filters
    kalman_filters,     \* per sensor: one filter per column
    readings,           \* per sensor: the latest row of smart_room_readings
    anomalies,          \* committed rows of the anomalies table, in order
    mqtt,               \* messages published by mqtt_client, in order
    log,                \* what the most recent call of run_detection did
    passes,             \* calls of run_detection that advanced filters
    est,                \* a filter driven alone (estimator specification)
    meas,               \* the constant measurement fed to est
    residuals,          \* residuals of est, one per step
    callers             \* calls of run_detection interleaved at lines 303-309

vars == <<abnormal_detected, robot_moved, models, training_rows,
          kalman_filters, readings, anomalies, mqtt, log, passes,
          est, meas, residuals, callers>>

-----------------------------------------------------------------------------
(* Bounds of the model *)

\* calls of run_detection that reach the filters
MaxPasses == 2

\* timestamps of the rows are 1..MaxTime
MaxTime == 2

\* predict/update steps of the filter driven alone
MaxSteps == 3

\* calls of run_detection in flight at once (interleaved specification)
MaxCallers == 2

-----------------------------------------------------------------------------
(* Exact rational arithmetic *)

RECURSIVE GCD(_, _)
GCD(a, b) == IF b = 0 THEN a ELSE GCD(b, a % b)

Abs(n) == IF n < 0 THEN 0 - n ELSE n

Norm(n, d) ==
    LET g == GCD(Abs(n), d)
    IN  <<n \div g, d \div g>>

Null == <<0, 0>>

IsNull(v) == v[2] = 0

RatAdd(a, b) ==
    IF a[1] = 0 THEN b
    ELSE IF b[1] = 0 THEN a
    ELSE IF a[2] = b[2] THEN Norm(a[1] + b[1], a[2])
    ELSE LET g == GCD(a[2], b[2])
         IN  Norm(a[1] * (b[2] \div g) + b[1] * (a[2] \div g),
                  (a[2] \div g) * b[2])

RatNeg(a) == <<0 - a[1], a[2]>>

RatSub(a, b) == RatAdd(a, RatNeg(b))

RatMul(a, b) ==
    IF a[1] = 0 \/ b[1] = 0 THEN <<0, 1>>
    ELSE IF a = <<1, 1>> THEN b
    ELSE IF b = <<1, 1>> THEN a
    ELSE LET g1 == GCD(Abs(a[1]), b[2])
             g2 == GCD(Abs(b[1]), a[2])
         IN  <<(a[1] \div g1) * (b[1] \div g2),
               (a[2] \div g2) * (b[2] \div g1)>>

\* np.linalg.inv of a 1x1 matrix; defined for a non-zero entry only
RatInv(a) == IF a[1] < 0 THEN <<0 - a[2], 0 - a[1]>> ELSE <<a[2], a[1]>>

RatAbs(a) == <<Abs(a[1]), a[2]>>

RatLess(a, b) == RatSub(a, b)[1] < 0

RatLeq(a, b) == RatSub(a, b)[1] <= 0

Zero == <<0, 1>>

One == <<1, 1>>

-----------------------------------------------------------------------------
(* KalmanFilter: the 1x1 filter, data_filtering.py:79-102 *)

\* the process noise left out of the covariance
predict_NoNoise(kf) ==
    [kf EXCEPT !.x = RatMul(kf.F, kf.x),
               !.P = RatMul(RatMul(kf.F, kf.P), kf.F)]

\* predict(): x = F x, P = F P F^T + Q
predict(kf) ==
    [kf EXCEPT !.x = RatMul(kf.F, kf.x),
               !.P = RatAdd(RatMul(RatMul(kf.F, kf.P), kf.F), kf.Q)]

\* the gain computed with the measurement noise left out of S
KalmanGain_NoMeasurementNoise(kf) ==
    LET S == RatMul(kf.H, RatMul(kf.P, kf.H))
    IN  RatMul(RatMul(kf.P, kf.H), RatInv(S))

\* the gain K = P H^T inv(H P H^T + R) that update() computes
KalmanGain(kf) ==
    LET S == RatAdd(RatMul(kf.H, RatMul(kf.P, kf.H)), kf.R)
    IN  RatMul(RatMul(kf.P, kf.H), RatInv(S))

\* the innovation with its sign turned
update_SignTurned(kf, z) ==
    LET K == KalmanGain(kf)
        y == RatSub(RatMul(kf.H, kf.x), z)
    IN  [kf EXCEPT !.x = RatAdd(kf.x, RatMul(K, y)),
                   !.P = RatMul(RatSub(One, RatMul(K, kf.H)), kf.P)]

\* update(z): y = z - H x, x = x + K y, P = (I - K H) P
update(kf, z) ==
    LET K == KalmanGain(kf)
        y == RatSub(z, RatMul(kf.H, kf.x))
    IN  [kf EXCEPT !.x = RatAdd(kf.x, RatMul(K, y)),
                   !.P = RatMul(RatSub(One, RatMul(K, kf.H)), kf.P)]

\* the initial estimate x0 chosen per sensor and feature
InitialEstimate(sensor_type, feature) ==
    IF sensor_type = "sound"
    THEN IF feature = "rms" THEN <<1, 125>>         \* 0.008
         ELSE IF feature = "zcr" THEN <<1, 100>>    \* 0.010
         ELSE Zero
    ELSE IF sensor_type = "light" /\ feature = "light_level"
         THEN <<12, 1>>
         ELSE Zero

NewFilter(x0) ==
    [F |-> One, H |-> One,
     Q |-> <<1, 20>>,      \* 0.05
     R |-> <<1, 10>>,      \* 0.1
     P |-> One,
     x |-> x0]

initialize_kalman_filter(sensor_type, feature) ==
    NewFilter(InitialEstimate(sensor_type, feature))

\* residual = abs(kf.x - val), taken after update()
Residual(kf, val) == RatAbs(RatSub(kf.x, val))

-----------------------------------------------------------------------------
(* sensor_config and training, data_filtering.py:133-180 *)

Sensors == {"light", "sound"}

Columns(sensor_type) ==
    IF sensor_type = "light" THEN <<"light_level">> ELSE <<"rms", "zcr">>

\* fewest rows IsolationForest is fitted on
MinTrainingRows == 3

\* rows of trainingData.csv labelled normal and inside the training ranges
TrainingSizes == {MinTrainingRows - 1, MinTrainingRows}

\* train_model: a model when len(values) >= 3, None otherwise
train_model(n_rows) == n_rows >= MinTrainingRows

-----------------------------------------------------------------------------
(* Rows and collaborators *)

\* patient_id values carried by the rows of smart_room_readings
PatientIds == {10}

\* model.predict of the fitted forest: -1 outlier, 1 inlier.  The forest is
\* fixed after training, so its verdict is an attribute of the row.
Outlier == -1

Inlier == 1

\* (rms, zcr) and the forest's verdict for the sound rows the room can store
SoundRows ==
    {[values |-> << <<1, 20>>, <<3, 100>> >>, pred |-> Outlier],  \* 0.05, 0.03
     [values |-> << <<1, 20>>, <<3, 100>> >>, pred |-> Inlier],
     [values |-> << <<1, 125>>, <<1, 1000>> >>, pred |-> Outlier], \* 0.008, 0.001
     [values |-> << <<1, 50>>, <<3, 100>> >>, pred |-> Outlier],  \* 0.02, 0.03
     [values |-> << <<1, 20>>, Null >>, pred |-> Outlier]}        \* 0.05, NULL

\* light_level and the forest's verdict for the light rows
LightRows ==
    {[values |-> << <<12, 1>> >>, pred |-> Outlier],
     [values |-> << <<40, 1>> >>, pred |-> Outlier],
     [values |-> << <<40, 1>> >>, pred |-> Inlier]}

\* the query keeps only rows whose first column is not NULL
RowChoices(sensor_type) ==
    IF sensor_type = "light" THEN LightRows ELSE SoundRows

\* places where a collaborator (database, forest, broker) can raise
Faults == {"none", "read", "exists", "predict", "if_insert", "if_commit",
           "kf_insert", "kf_commit", "publish_move", "publish_alert"}

IsolationForest == "Isolation Forest"

KalmanFilterMethod == "Kalman Filter"

MoveMessage == [topic |-> "robot/move", payload |-> "{x: 0, y: 1}"]

AlertMessage ==
    [topic |-> "web/alert", payload |-> "Patient abnormal sound detected!"]

-----------------------------------------------------------------------------
(* run_detection, data_filtering.py:191-315, piece by piece *)

\* the early return left out
Suppressed_Never(flag) == FALSE

\* line 195: the early return of a locked system
Suppressed(flag) == flag

\* the lookup left out
already_recorded_Never(table, timestamp, sensor_type) == FALSE

\* the lookup with the sensor type fixed to "sound"
already_recorded_SoundOnly(table, timestamp, sensor_type) ==
    \E i \in 1..Len(table) :
        /\ table[i].timestamp = timestamp
        /\ table[i].sensor_type = "sound"
        /\ sensor_type = "sound"

\* the lookup counting only the rows of the Kalman branch
already_recorded_KalmanOnly(table, timestamp, sensor_type) ==
    \E i \in 1..Len(table) :
        /\ table[i].timestamp = timestamp
        /\ table[i].sensor_type = sensor_type
        /\ table[i].detection_method = "Kalman Filter"

\* the lookup returning only when it counts more than one row
already_recorded_MoreThanOne(table, timestamp, sensor_type) ==
    \E i, j \in 1..Len(table) :
        /\ i # j
        /\ table[i].timestamp = timestamp
        /\ table[i].sensor_type = sensor_type
        /\ table[j].timestamp = timestamp
        /\ table[j].sensor_type = sensor_type

\* lines 211-216: SELECT COUNT(*) ... WHERE timestamp = %s AND sensor_type = %s
already_recorded(table, timestamp, sensor_type) ==
    \E i \in 1..Len(table) :
        /\ table[i].timestamp = timestamp
        /\ table[i].sensor_type = sensor_type

\* only the first column looked at, as the WHERE of the SELECT does
Coercible_FirstOnly(values) == ~IsNull(values[1])

\* line 219: float(v) raises on a NULL
Coercible(values) == \A i \in 1..Len(values) : ~IsNull(values[i])

\* the ends of the band counted as outside it
OutOfBand_EndsOutside(column, val) ==
    \/ column = "rms" /\ (RatLeq(val, <<1, 100>>) \/ RatLeq(<<3, 100>>, val))
    \/ column = "zcr" /\ (RatLeq(val, <<3, 1000>>) \/ RatLeq(<<1, 50>>, val))

\* lines 236-237: the value is outside the normal band of its column
OutOfBand(column, val) ==
    \/ column = "rms" /\ (RatLess(val, <<1, 100>>) \/ RatLess(<<3, 100>>, val))
    \/ column = "zcr" /\ (RatLess(val, <<3, 1000>>) \/ RatLess(<<1, 50>>, val))

\* the light branch left out
isolation_forest_confirms_SoundOnly(sensor_type, columns, values, pred) ==
    /\ pred = Outlier
    /\ sensor_type = "sound"
    /\ \A i \in 1..Len(values) : OutOfBand(columns[i], values[i])

\* lines 230-263: the forest's verdict as confirmed per sensor
isolation_forest_confirms(sensor_type, columns, values, pred) ==
    /\ pred = Outlier
    /\ IF sensor_type = "sound"
       THEN Cardinality({i \in 1..Len(values) :
                            OutOfBand(columns[i], values[i])}) = Len(columns)
       ELSE sensor_type = "light"

ValueAt(values, i) == IF Len(values) >= i THEN values[i] ELSE Null

\* lines 246-252 and 258-261: the row the forest branch inserts
isolation_forest_record(sensor_type, patient, values, timestamp) ==
    [patient_id |-> patient, sensor_type |-> sensor_type, db |-> Null,
     rms |-> IF sensor_type = "sound" THEN ValueAt(values, 1) ELSE Null,
     zcr |-> IF sensor_type = "sound" THEN ValueAt(values, 2) ELSE Null,
     detection_method |-> IsolationForest, timestamp |-> timestamp]

\* lines 291-297: the row the Kalman branch inserts
kalman_filter_record(sensor_type, patient, values, timestamp) ==
    [patient_id |-> patient, sensor_type |-> sensor_type, db |-> Null,
     rms |-> ValueAt(values, 1), zcr |-> ValueAt(values, 2),
     detection_method |-> KalmanFilterMethod, timestamp |-> timestamp]

\* the thresholds of test_collect_data.py:113
Threshold_Test(column) ==
    IF column = "rms" THEN <<4, 1000>> ELSE <<3, 1000>>

\* lines 275-280
Threshold(column) ==
    IF column = "rms" THEN <<1, 1000>>
    ELSE IF column = "zcr" THEN <<1, 1000>>
    ELSE One

\* update(val) without the predict() before it
advance_UpdateOnly(kf_list, values) ==
    [i \in 1..Len(values) |-> update(kf_list[i], values[i])]

\* lines 269-271: every filter of the sensor does predict() then update(val)
advance(kf_list, values) ==
    [i \in 1..Len(values) |-> update(predict(kf_list[i]), values[i])]

\* lines 272-284: the features whose residual exceeds the threshold
abnormal_features(columns, values, kf_list) ==
    {i \in 1..Len(values) :
        RatLess(Threshold(columns[i]), Residual(kf_list[i], values[i]))}

\* the ANY rule of test_collect_data.py:115
kalman_filter_confirms_Any(columns, values, kf_list) ==
    Cardinality(abnormal_features(columns, values, kf_list)) > 0

\* line 286
kalman_filter_confirms(columns, values, kf_list) ==
    Cardinality(abnormal_features(columns, values, kf_list)) = Len(columns)

\* "or" written for "and"
both_agree_Either(sensor_type, isolation_forest_abnormal, kalman_filter_abnormal) ==
    sensor_type = "sound"
        /\ (isolation_forest_abnormal \/ kalman_filter_abnormal)

\* line 303
both_agree(sensor_type, isolation_forest_abnormal, kalman_filter_abnormal) ==
    sensor_type = "sound" /\ isolation_forest_abnormal /\ kalman_filter_abnormal

-----------------------------------------------------------------------------
(* The state one call of run_detection works on.  pending holds the rows   *)
(* inserted by cursor.execute and not yet committed; log records what the  *)
(* call did.                                                               *)

NoLog(sensor_type) ==
    [sensor |-> sensor_type, outcome |-> "idle", latch_at_entry |-> FALSE,
     reads |-> 0, lookups |-> 0, row |-> <<>>, predicted |-> FALSE,
     kf_steps |-> 0, inserted |-> <<>>, published |-> 0,
     isolation_forest_abnormal |-> FALSE, kalman_filter_abnormal |-> FALSE,
     fired |-> FALSE]

Entry(sensor_type) ==
    [abnormal_detected |-> abnormal_detected,
     robot_moved |-> robot_moved,
     anomalies |-> anomalies,
     pending |-> <<>>,
     kf_list |-> kalman_filters[sensor_type],
     mqtt |-> mqtt,
     log |-> [NoLog(sensor_type) EXCEPT
                  !.outcome = "running",
                  !.latch_at_entry = abnormal_detected]]

\* cursor.execute("INSERT INTO anomalies ...")
execute_insert(st, rec) == [st EXCEPT !.pending = Append(@, rec)]

\* conn.commit()
commit(st) ==
    [st EXCEPT !.anomalies = @ \o st.pending,
               !.pending = <<>>,
               !.log.inserted =
                   @ \o [i \in 1..Len(st.pending) |->
                            st.pending[i].detection_method]]

\* conn.rollback(): uncommitted rows are dropped, committed rows stay
rollback(st) == [st EXCEPT !.pending = <<>>]

\* a handler that raises again after the rollback
Raise_Propagates(st) == [rollback(st) EXCEPT !.log.outcome = "propagated"]

\* a handler that also clears the flags
Raise_Reset(st) ==
    [rollback(st) EXCEPT !.log.outcome = "error",
                         !.abnormal_detected = FALSE,
                         !.robot_moved = FALSE]

\* lines 313-315: except Exception: print, conn.rollback()
Raise(st) == [rollback(st) EXCEPT !.log.outcome = "error"]

Return(st, outcome) == [st EXCEPT !.log.outcome = outcome]

\* mqtt_client.publish(topic, payload)
publish(st, msg) ==
    [st EXCEPT !.mqtt = Append(@, msg), !.log.published = @ + 1]

\* act publishing both messages before it sets the flags
act_PublishFirst(st, sensor_type, fault) ==
    IF both_agree(sensor_type, st.log.isolation_forest_abnormal,
                  st.log.kalman_filter_abnormal)
    THEN IF ~st.robot_moved
         THEN LET s1 == publish(st, MoveMessage)
                  s2 == publish(s1, AlertMessage)
                  s3 == [s2 EXCEPT !.abnormal_detected = TRUE,
                                   !.robot_moved = TRUE,
                                   !.log.fired = TRUE]
              IN  IF fault = "publish_move" THEN Raise(st)
                  ELSE IF fault = "publish_alert" THEN Raise(s1)
                  ELSE Return(s3, "done")
         ELSE Return(st, "alarm already sent")
    ELSE Return(st, "done")

\* act setting robot_moved and leaving abnormal_detected as it was
act_RobotMovedOnly(st, sensor_type, fault) ==
    IF both_agree(sensor_type, st.log.isolation_forest_abnormal,
                  st.log.kalman_filter_abnormal)
    THEN IF ~st.robot_moved
         THEN LET s1 == [st EXCEPT !.robot_moved = TRUE,
                                   !.log.fired = TRUE]
                  s2 == publish(s1, MoveMessage)
                  s3 == publish(s2, AlertMessage)
              IN  IF fault = "publish_move" THEN Raise(s1)
                  ELSE IF fault = "publish_alert" THEN Raise(s2)
                  ELSE Return(s3, "done")
         ELSE Return(st, "alarm already sent")
    ELSE Return(st, "done")

\* lines 303-311: act only when both agree
act(st, sensor_type, fault) ==
    IF both_agree(sensor_type, st.log.isolation_forest_abnormal,
                  st.log.kalman_filter_abnormal)
    THEN IF ~st.robot_moved
         THEN LET s1 == [st EXCEPT !.abnormal_detected = TRUE,
                                   !.robot_moved = TRUE,
                                   !.log.fired = TRUE]
                  s2 == publish(s1, MoveMessage)
                  s3 == publish(s2, AlertMessage)
              IN  IF fault = "publish_move" THEN Raise(s1)
                  ELSE IF fault = "publish_alert" THEN Raise(s2)
                  ELSE Return(s3, "done")
         ELSE Return(st, "alarm already sent")
    ELSE Return(st, "done")

\* the Kalman branch committing its row only after act has returned
kalman_stage_CommitAfterAct(st, sensor_type, columns, row, fault) ==
    LET kfs == advance(st.kf_list, row.values)
        s1 == [st EXCEPT !.kf_list = kfs, !.log.kf_steps = Len(row.values)]
        s2 == execute_insert(s1, kalman_filter_record(sensor_type,
                                     row.patient_id, row.values, row.timestamp))
        s3 == act([s2 EXCEPT !.log.kalman_filter_abnormal = TRUE],
                  sensor_type, fault)
    IN  IF kalman_filter_confirms(columns, row.values, kfs)
        THEN IF fault = "kf_insert" THEN Raise(s1)
             ELSE IF fault = "kf_commit" \/ s3.log.outcome = "error"
                  THEN Raise(s3)
                  ELSE commit(s3)
        ELSE act(s1, sensor_type, fault)

\* lines 267-299: the Kalman branch, then act
kalman_stage(st, sensor_type, columns, row, fault) ==
    LET kfs == advance(st.kf_list, row.values)
        s1 == [st EXCEPT !.kf_list = kfs, !.log.kf_steps = Len(row.values)]
        s2 == execute_insert(s1, kalman_filter_record(sensor_type,
                                     row.patient_id, row.values, row.timestamp))
        s3 == [commit(s2) EXCEPT !.log.kalman_filter_abnormal = TRUE]
    IN  IF kalman_filter_confirms(columns, row.values, kfs)
        THEN IF fault = "kf_insert" THEN Raise(s1)
             ELSE IF fault = "kf_commit" THEN Raise(s2)
             ELSE act(s3, sensor_type, fault)
        ELSE act(s1, sensor_type, fault)

\* lines 229-263: the Isolation Forest branch, then the Kalman branch
forest_stage(st, sensor_type, columns, row, fault) ==
    LET s1 == [st EXCEPT !.log.predicted = TRUE]
        s2 == execute_insert(s1, isolation_forest_record(sensor_type,
                                     row.patient_id, row.values, row.timestamp))
        s3 == [commit(s2) EXCEPT !.log.isolation_forest_abnormal = TRUE]
    IN  IF fault = "predict" THEN Raise(s1)
        ELSE IF isolation_forest_confirms(sensor_type, columns, row.values,
                                          row.pred)
        THEN IF fault = "if_insert" THEN Raise(s1)
             ELSE IF fault = "if_commit" THEN Raise(s2)
             ELSE kalman_stage(s3, sensor_type, columns, row, fault)
        ELSE kalman_stage(s1, sensor_type, columns, row, fault)

\* lines 193-219: the guards, then the detectors
run_detection(sensor_type, fault) ==
    LET columns == Columns(sensor_type)
        s0 == Entry(sensor_type)
        s1 == [s0 EXCEPT !.log.reads = 1]
        s2 == [s1 EXCEPT !.log.row = readings[sensor_type]]
        s3 == [s2 EXCEPT !.log.lookups = 1]
    IN  IF Suppressed(abnormal_detected) THEN Return(s0, "suppressed")
        ELSE IF fault = "read" THEN Raise(s1)
        ELSE IF readings[sensor_type] = <<>> THEN Return(s2, "no reading")
        ELSE IF fault = "exists" THEN Raise(s3)
        ELSE IF already_recorded(anomalies,
                                 readings[sensor_type][1].timestamp, sensor_type)
        THEN Return(s3, "already recorded")
        ELSE IF ~Coercible(readings[sensor_type][1].values) THEN Raise(s3)
        ELSE forest_stage(s3, sensor_type, columns,
                          readings[sensor_type][1], fault)

-----------------------------------------------------------------------------
(* The monitoring process *)

\* lines 320-323: one filter per configured column
InitialFilters ==
    [s \in Sensors |->
        [i \in 1..Len(Columns(s)) |->
            initialize_kalman_filter(s, Columns(s)[i])]]

\* lines 328-334: models holds the sensors whose training gave a model
TrainedModels(rows) == {s \in Sensors : train_model(rows[s])}

Init ==
    /\ abnormal_detected = FALSE
    /\ robot_moved = FALSE
    /\ training_rows \in [Sensors -> TrainingSizes]
    /\ models = TrainedModels(training_rows)
    /\ kalman_filters = InitialFilters
    /\ readings = [s \in Sensors |-> <<>>]
    /\ anomalies = <<>>
    /\ mqtt = <<>>
    /\ log = NoLog("none")
    /\ passes = 0
    /\ est = NewFilter(Zero)
    /\ meas = Zero
    /\ residuals = <<>>
    /\ callers = <<>>

\* the timestamp of the rows stored last (0: none yet)
LatestTimestamp ==
    IF readings["sound"] = <<>> THEN 0 ELSE readings["sound"][1].timestamp

Row(patient, choice, timestamp) ==
    [patient_id |-> patient, values |-> choice.values,
     timestamp |-> timestamp, pred |-> choice.pred]

\* sensors.py:84-120: each cycle of the room sends one light and one sound
\* message with the same timestamp; both are stored as rows.  Only the latest
\* row of a sensor is ever read (ORDER BY timestamp DESC LIMIT 1), so only it
\* is kept.
StoreReadings(patient, light, sound) ==
    /\ LatestTimestamp < MaxTime
    /\ passes < MaxPasses   \* bound: no new cycle once the passes are spent
    /\ readings' = [s \in Sensors |->
                       << Row(patient, IF s = "light" THEN light ELSE sound,
                              LatestTimestamp + 1) >>]
    /\ UNCHANGED <<abnormal_detected, robot_moved, models, training_rows,
                   kalman_filters, anomalies, mqtt, log, passes,
                   est, meas, residuals, callers>>

\* lines 342-352: the main loop calls run_detection for a sensor in models;
\* an exception leaving run_detection ends the loop (only KeyboardInterrupt
\* is handled there) and the finally clause closes the database
RunDetection(sensor_type, fault) ==
    /\ sensor_type \in models
    /\ log.outcome # "propagated"
    /\ \E r \in {run_detection(sensor_type, fault)} :
           /\ r.log.kf_steps > 0 => passes < MaxPasses
           /\ abnormal_detected' = r.abnormal_detected
           /\ robot_moved' = r.robot_moved
           /\ anomalies' = r.anomalies
           /\ kalman_filters' = [kalman_filters EXCEPT ![sensor_type] = r.kf_list]
           /\ mqtt' = r.mqtt
           /\ log' = r.log
           /\ passes' = IF r.log.kf_steps > 0 THEN passes + 1 ELSE passes
    /\ UNCHANGED <<models, training_rows, readings, est, meas, residuals,
                   callers>>

Next ==
    \/ \E p \in PatientIds : \E l \in LightRows : \E r \in SoundRows :
           StoreReadings(p, l, r)
    \/ \E s \in Sensors : \E fault \in Faults : RunDetection(s, fault)

Spec == Init /\ [][Next]_vars

-----------------------------------------------------------------------------
(* One filter driven alone with a constant measurement *)

\* initial estimates and constant measurements on the scale of rms and zcr
SoundEstimates == {Zero, <<1, 125>>, <<1, 100>>, <<1, 50>>, <<1, 20>>}

SoundMeasurements == {Zero, <<1, 125>>, <<1, 50>>, <<3, 100>>, <<1, 20>>}

\* and on the scale of light_level
LightEstimates == {Zero, <<12, 1>>, <<40, 1>>}

LightMeasurements == {Zero, <<12, 1>>, <<25, 1>>, <<40, 1>>}

\* a filter starts near the values it is then fed: both come from one column
EstimatorPairs ==
    (SoundEstimates \X SoundMeasurements) \cup
        (LightEstimates \X LightMeasurements)

EstimatorInit ==
    /\ abnormal_detected = FALSE
    /\ robot_moved = FALSE
    /\ training_rows = [s \in Sensors |-> MinTrainingRows]
    /\ models = TrainedModels(training_rows)
    /\ kalman_filters = InitialFilters
    /\ readings = [s \in Sensors |-> <<>>]
    /\ anomalies = <<>>
    /\ mqtt = <<>>
    /\ log = NoLog("none")
    /\ passes = 0
    /\ \E pair \in EstimatorPairs :
           /\ est = NewFilter(pair[1])
           /\ meas = pair[2]
    /\ residuals = <<>>
    /\ callers = <<>>

\* lines 270-272 for one feature: predict(), update(val), residual
EstimatorStep ==
    /\ Len(residuals) < MaxSteps
    /\ est' = update(predict(est), meas)
    /\ residuals' = Append(residuals, Residual(est', meas))
    /\ UNCHANGED <<abnormal_detected, robot_moved, models, training_rows,
                   kalman_filters, readings, anomalies, mqtt, log, passes,
                   meas, callers>>

EstimatorNext == EstimatorStep

EstimatorSpec == EstimatorInit /\ [][EstimatorNext]_vars

-----------------------------------------------------------------------------
(* One cycle of rows chosen on and around the limits the detectors compare  *)
(* with: the ends of the normal bands (lines 236-237) and the values whose  *)
(* first residual is exactly the threshold (lines 275-282).                 *)

\* bands: rms 0.01 .. 0.03, zcr 0.003 .. 0.02.  From x0 = 0.008 the first
\* residual of rms is (2/23)|rms - 0.008|: 0.001 exactly for rms = 0.0195;
\* from x0 = 0.010 that of zcr is 0.001 exactly for zcr = 0.0215.
BoundarySoundRows ==
    {[values |-> << <<1, 20>>, <<3, 100>> >>, pred |-> Outlier],
     [values |-> << <<1, 20>>, <<3, 100>> >>, pred |-> Inlier],
     [values |-> << <<1, 100>>, <<3, 100>> >>, pred |-> Outlier],   \* rms 0.01
     [values |-> << <<3, 100>>, <<1, 1000>> >>, pred |-> Outlier],  \* rms 0.03
     [values |-> << <<1, 20>>, <<3, 1000>> >>, pred |-> Outlier],   \* zcr 0.003
     [values |-> << <<1, 125>>, <<1, 50>> >>, pred |-> Outlier],    \* zcr 0.02
     [values |-> << <<1, 50>>, <<1, 100>> >>, pred |-> Outlier],    \* both inside
     [values |-> << <<39, 2000>>, <<3, 100>> >>, pred |-> Outlier], \* rms 0.0195
     [values |-> << <<1, 20>>, <<43, 2000>> >>, pred |-> Outlier],  \* zcr 0.0215
     [values |-> << <<1, 20>>, <<1, 100>> >>, pred |-> Inlier],     \* zcr = x0
     [values |-> << <<1, 20>>, Null >>, pred |-> Outlier]}

\* from x0 = 12 the first residual of light_level is (2/23)|light - 12|:
\* 1 exactly for light_level = 23.5
BoundaryLightRows ==
    {[values |-> << <<12, 1>> >>, pred |-> Outlier],
     [values |-> << <<40, 1>> >>, pred |-> Outlier],
     [values |-> << <<40, 1>> >>, pred |-> Inlier],
     [values |-> << <<47, 2>> >>, pred |-> Outlier],
     [values |-> << <<24, 1>> >>, pred |-> Inlier]}

\* the first cycle of the room, with rows from the sets above
StoreBoundaryReadings(patient, light, sound) ==
    /\ LatestTimestamp = 0
    /\ StoreReadings(patient, light, sound)

BoundaryNext ==
    \/ \E p \in PatientIds :
           \E l \in BoundaryLightRows : \E r \in BoundarySoundRows :
               StoreBoundaryReadings(p, l, r)
    \/ \E s \in Sensors : \E fault \in Faults : RunDetection(s, fault)

BoundarySpec == Init /\ [][BoundaryNext]_vars

-----------------------------------------------------------------------------
(* Lines 303-309 taken by several calls of run_detection at once, one        *)
(* statement at a time.  The flags are module globals read and written with  *)
(* no lock, so calls made from several threads of a server (the use the      *)
(* comment at lines 337-338 names) interleave between any two statements.    *)

Callers == 1..MaxCallers

\* the locals a call holds when it arrives at line 303
CallerLocals ==
    [line : {303}, sensor_type : Sensors,
     isolation_forest_abnormal : BOOLEAN, kalman_filter_abnormal : BOOLEAN]

InterleavedInit ==
    /\ abnormal_detected = FALSE
    /\ robot_moved = FALSE
    /\ training_rows = [s \in Sensors |-> MinTrainingRows]
    /\ models = TrainedModels(training_rows)
    /\ kalman_filters = InitialFilters
    /\ readings = [s \in Sensors |-> <<>>]
    /\ anomalies = <<>>
    /\ mqtt = <<>>
    /\ log = NoLog("none")
    /\ passes = 0
    /\ est = NewFilter(Zero)
    /\ meas = Zero
    /\ residuals = <<>>
    /\ callers \in [Callers -> CallerLocals]

\* what lines 303-309 neither read nor write
elsewhere ==
    <<models, training_rows, kalman_filters, readings, anomalies, log,
      passes, est, meas, residuals>>

\* the caller moves to another line (0: it returned); its locals stay
Goto(c, line) == callers' = [callers EXCEPT ![c].line = line]

\* line 303: if sensor_type == "sound" and both booleans
TestBothAgree(c) ==
    /\ callers[c].line = 303
    /\ Goto(c, IF both_agree(callers[c].sensor_type,
                             callers[c].isolation_forest_abnormal,
                             callers[c].kalman_filter_abnormal)
               THEN 304 ELSE 0)
    /\ UNCHANGED <<abnormal_detected, robot_moved, mqtt, elsewhere>>

\* line 304: if not robot_moved; else the print of line 311
TestRobotMoved(c) ==
    /\ callers[c].line = 304
    /\ Goto(c, IF ~robot_moved THEN 305 ELSE 0)
    /\ UNCHANGED <<abnormal_detected, robot_moved, mqtt, elsewhere>>

\* line 305: abnormal_detected = True
SetAbnormalDetected(c) ==
    /\ callers[c].line = 305
    /\ abnormal_detected' = TRUE
    /\ Goto(c, 306)
    /\ UNCHANGED <<robot_moved, mqtt, elsewhere>>

\* line 306: robot_moved = True
SetRobotMoved(c) ==
    /\ callers[c].line = 306
    /\ robot_moved' = TRUE
    /\ Goto(c, 308)
    /\ UNCHANGED <<abnormal_detected, mqtt, elsewhere>>

\* line 308: mqtt_client.publish("robot/move", ...)
PublishMove(c) ==
    /\ callers[c].line = 308
    /\ mqtt' = Append(mqtt, MoveMessage)
    /\ Goto(c, 309)
    /\ UNCHANGED <<abnormal_detected, robot_moved, elsewhere>>

\* line 309: mqtt_client.publish("web/alert", ...); the call returns
PublishAlert(c) ==
    /\ callers[c].line = 309
    /\ mqtt' = Append(mqtt, AlertMessage)
    /\ Goto(c, 0)
    /\ UNCHANGED <<abnormal_detected, robot_moved, elsewhere>>

InterleavedNext ==
    \E c \in Callers :
        \/ TestBothAgree(c)
        \/ TestRobotMoved(c)
        \/ SetAbnormalDetected(c)
        \/ SetRobotMoved(c)
        \/ PublishMove(c)
        \/ PublishAlert(c)

InterleavedSpec == InterleavedInit /\ [][InterleavedNext]_vars

-----------------------------------------------------------------------------
(* Reading the anomalies table and the log *)

\* the rows of the table with the given timestamp and sensor type
RecordsAt(table, timestamp, sensor_type) ==
    {i \in 1..Len(table) :
        /\ table[i].timestamp = timestamp
        /\ table[i].sensor_type = sensor_type}

\* those of them written by the given detection method
RecordsBy(table, timestamp, sensor_type, method) ==
    {i \in RecordsAt(table, timestamp, sensor_type) :
        table[i].detection_method = method}

\* a step of the process that is a call of run_detection: it leaves a new
\* log, or the same log once more after advancing the filters again
IsPass == log' # log \/ passes' # passes

\* the latest sound row is the loud one the forest flags (rms 0.05, zcr 0.03)
LoudSoundStored ==
    /\ readings["sound"] # <<>>
    /\ readings["sound"][1].values = << <<1, 20>>, <<3, 100>> >>
    /\ readings["sound"][1].pred = Outlier

\* both detectors would confirm the latest sound row if a pass examined it
WouldConfirmBoth ==
    /\ readings["sound"] # <<>>
    /\ Coercible(readings["sound"][1].values)
    /\ ~already_recorded(anomalies, readings["sound"][1].timestamp, "sound")
    /\ isolation_forest_confirms("sound", Columns("sound"),
           readings["sound"][1].values, readings["sound"][1].pred)
    /\ kalman_filter_confirms(Columns("sound"), readings["sound"][1].values,
           advance(kalman_filters["sound"], readings["sound"][1].values))

-----------------------------------------------------------------------------
(* C1: once the latch is FIRED (abnormal_detected set), every later call of *)
(* run_detection, for either sensor type and any latest row, is a no-op: it *)
(* reads no row, queries nothing, invokes neither detector (the filters     *)
(* keep their state), inserts nothing and publishes nothing.                *)
C1_FiredLatchSuppressesEveryPass ==
    [][abnormal_detected =>
          /\ anomalies' = anomalies
          /\ kalman_filters' = kalman_filters
          /\ mqtt' = mqtt
          /\ abnormal_detected'
          /\ IsPass =>
                /\ log'.outcome = "suppressed"
                /\ log'.reads = 0
                /\ log'.lookups = 0
                /\ ~log'.predicted
                /\ log'.kf_steps = 0
                /\ log'.inserted = <<>>
                /\ log'.published = 0]_vars

\* a sound pass was suppressed although the row stored after the alert would
\* make both detectors confirm
C1_Witness ==
    /\ abnormal_detected
    /\ log.outcome = "suppressed"
    /\ log.sensor = "sound"
    /\ readings["sound"][1].timestamp > 1
    /\ WouldConfirmBoth

-----------------------------------------------------------------------------
(* C2: the latch is set and messages are published only by a sound pass in  *)
(* which the forest's verdict is outlier with every feature outside its     *)
(* band and every feature's residual exceeds its threshold.  A pass of the  *)
(* light sensor, a pass with the features inside their bands, or a pass in  *)
(* which one detector alone confirms leaves the flags and the channel as    *)
(* they were.                                                               *)
C2_FiresOnlyWhenBothConfirm ==
    [][(\/ abnormal_detected' # abnormal_detected
        \/ robot_moved' # robot_moved
        \/ mqtt' # mqtt) =>
          /\ log'.sensor = "sound"
          /\ log'.row # <<>>
          /\ log'.row = readings["sound"]
          /\ log'.row[1].pred = Outlier
          /\ \A i \in 1..Len(Columns("sound")) :
                /\ OutOfBand(Columns("sound")[i], log'.row[1].values[i])
                /\ RatLess(Threshold(Columns("sound")[i]),
                           Residual(kalman_filters'["sound"][i],
                                    log'.row[1].values[i]))
          /\ Cardinality(RecordsAt(anomalies', log'.row[1].timestamp,
                                   "sound")) = 2]_vars

\* a sound pass on an outlier row with rms inside its band ran to its end:
\* the Kalman branch confirmed, the forest branch did not, and nothing fired
C2_Witness ==
    /\ log.sensor = "sound"
    /\ log.outcome = "done"
    /\ log.row # <<>>
    /\ log.row[1].pred = Outlier
    /\ ~OutOfBand(Columns("sound")[1], log.row[1].values[1])
    /\ log.kalman_filter_abnormal
    /\ ~log.isolation_forest_abnormal
    /\ ~abnormal_detected
    /\ ~robot_moved
    /\ mqtt = <<>>

-----------------------------------------------------------------------------
Methods == {IsolationForest, KalmanFilterMethod}

(* C3, as stated: a pass repeated on a reading with an unchanged            *)
(* (timestamp, sensor_type) finds exactly one ledger entry for it.          *)
C3_RerunFindsExactlyOneEntry ==
    log.outcome = "already recorded" =>
        Cardinality(RecordsAt(anomalies, log.row[1].timestamp, log.sensor)) = 1

(* C3, amended: however often a pass is repeated on a reading with an       *)
(* unchanged (timestamp, sensor_type), the ledger never holds two entries   *)
(* of the same detection method for it; once it holds an entry for it, a    *)
(* repeated pass returns at the lookup and leaves the ledger and the        *)
(* filters as they are, so the entries stay at one or two.                  *)
C3_RerunAddsNoEntry ==
    [][(IsPass /\ log'.row # <<>>) =>
          /\ \A m \in Methods :
                Cardinality(RecordsBy(anomalies', log'.row[1].timestamp,
                                      log'.sensor, m)) <= 1
          /\ RecordsAt(anomalies, log'.row[1].timestamp, log'.sensor) # {} =>
                /\ anomalies' = anomalies
                /\ kalman_filters' = kalman_filters
                /\ log'.outcome \in {"already recorded", "error"}
                /\ Cardinality(RecordsAt(anomalies', log'.row[1].timestamp,
                                         log'.sensor)) \in {1, 2}]_vars

\* a repeated pass returned at the lookup with two entries in the ledger
C3_Witness ==
    /\ log.outcome = "already recorded"
    /\ Cardinality(RecordsAt(anomalies, log.row[1].timestamp, log.sensor)) = 2

-----------------------------------------------------------------------------
(* C4, as stated: no two rows of the ledger share (timestamp, sensor type). *)
C4_NoTwoRecordsShareKey ==
    \A i, j \in 1..Len(anomalies) :
        (/\ anomalies[i].timestamp = anomalies[j].timestamp
         /\ anomalies[i].sensor_type = anomalies[j].sensor_type) => i = j

(* C4, amended: no two rows of the ledger share (timestamp, sensor type,    *)
(* detection method); a pass in which the forest and the filters both       *)
(* confirm the reading leaves exactly two rows for its (timestamp, sensor   *)
(* type), one by each method.                                               *)
C4_NoTwoRecordsShareKeyAndMethod ==
    /\ \A i, j \in 1..Len(anomalies) :
          (/\ anomalies[i].timestamp = anomalies[j].timestamp
           /\ anomalies[i].sensor_type = anomalies[j].sensor_type
           /\ anomalies[i].detection_method = anomalies[j].detection_method)
              => i = j
    /\ (log.isolation_forest_abnormal /\ log.kalman_filter_abnormal) =>
          /\ log.inserted = <<IsolationForest, KalmanFilterMethod>>
          /\ \A m \in Methods :
                Cardinality(RecordsBy(anomalies, log.row[1].timestamp,
                                      log.sensor, m)) = 1

\* the state right after a pass in which both detectors confirmed
C4_Witness ==
    /\ log.isolation_forest_abnormal
    /\ log.kalman_filter_abnormal
    /\ Cardinality(RecordsAt(anomalies, log.row[1].timestamp, log.sensor)) = 2

-----------------------------------------------------------------------------
(* C5: the flags abnormal_detected and robot_moved, once set, stay set in   *)
(* every later step; a call that sets them leaves them set also when its    *)
(* exception handler runs, and it sets them only from the open state, so    *)
(* the latch goes from OPEN to FIRED at most once.                          *)
C5_LatchFiresOnceAndStays ==
    [][/\ abnormal_detected => abnormal_detected'
       /\ robot_moved => robot_moved'
       /\ (IsPass /\ log'.fired) =>
             /\ ~abnormal_detected
             /\ ~robot_moved
             /\ abnormal_detected'
             /\ robot_moved']_vars

\* the handler ran in the pass that set the flags, and they are still set
C5_Witness ==
    /\ abnormal_detected
    /\ robot_moved
    /\ log.fired
    /\ log.outcome = "error"

-----------------------------------------------------------------------------
(* C6: a light pass that got past the latch and the lookup, whose row the   *)
(* forest classifies as outlier and whose forest branch did not raise,      *)
(* leaves exactly one row tagged "Isolation Forest" for the reading, for    *)
(* any light_level (no band check); the Kalman branch adds its own row or   *)
(* not, and the forest's row is there in both cases.                        *)
C6_LightOutlierGetsOneForestRecord ==
    (/\ log.sensor = "light"
     /\ log.predicted
     /\ log.kf_steps > 0
     /\ log.row[1].pred = Outlier) =>
        /\ log.isolation_forest_abnormal
        /\ log.inserted # <<>>
        /\ log.inserted[1] = IsolationForest
        /\ Cardinality(RecordsBy(anomalies, log.row[1].timestamp, "light",
                                 IsolationForest)) = 1
        /\ Cardinality(RecordsAt(anomalies, log.row[1].timestamp, "light")) =
              IF log.kalman_filter_abnormal THEN 2 ELSE 1

\* a light outlier the filter does not find abnormal got its forest row
C6_Witness ==
    /\ log.sensor = "light"
    /\ log.outcome = "done"
    /\ log.row[1].pred = Outlier
    /\ log.kf_steps = 1
    /\ ~log.kalman_filter_abnormal
    /\ Cardinality(RecordsAt(anomalies, log.row[1].timestamp, "light")) = 1

-----------------------------------------------------------------------------
(* C7: a sensor whose training had fewer than 3 normal rows has no model,   *)
(* and its detection passes still run: with a row stored and the latch open *)
(* a call of run_detection for it can be taken.                             *)
C7_UntrainedSensorStillDetects ==
    \A s \in Sensors :
        (/\ training_rows[s] < MinTrainingRows
         /\ readings[s] # <<>>
         /\ ~abnormal_detected
         /\ passes < MaxPasses) =>
            ENABLED (\E fault \in Faults : RunDetection(s, fault))

-----------------------------------------------------------------------------
(* C8: a pass that raised after it reached the detectors leaves no row of   *)
(* its reading in the ledger.                                               *)
C8_FailedPassLeavesNoRecord ==
    (log.outcome = "error" /\ log.predicted) =>
        RecordsAt(anomalies, log.row[1].timestamp, log.sensor) = {}

-----------------------------------------------------------------------------
(* C9: from the initial state, a sound pass that does not raise on the row  *)
(* rms 0.05, zcr 0.03 flagged outlier gives the residuals 21/5750 and 1/575,*)
(* both above 0.001, inserts the forest's row and then the filter's row,    *)
(* sets both flags and publishes the move command and then the alert; any   *)
(* pass taken after that reads nothing, writes nothing and publishes        *)
(* nothing.                                                                 *)
C9_EndToEnd ==
    [][/\ (/\ ~abnormal_detected
           /\ ~robot_moved
           /\ anomalies = <<>>
           /\ mqtt = <<>>
           /\ kalman_filters = InitialFilters
           /\ LoudSoundStored
           /\ IsPass
           /\ log'.sensor = "sound"
           /\ log'.outcome = "done") =>
             /\ Residual(kalman_filters'["sound"][1],
                         readings["sound"][1].values[1]) = <<21, 5750>>
             /\ Residual(kalman_filters'["sound"][2],
                         readings["sound"][1].values[2]) = <<1, 575>>
             /\ RatLess(<<1, 1000>>, <<21, 5750>>)
             /\ RatLess(<<1, 1000>>, <<1, 575>>)
             /\ anomalies' =
                   << isolation_forest_record("sound",
                          readings["sound"][1].patient_id,
                          readings["sound"][1].values,
                          readings["sound"][1].timestamp),
                      kalman_filter_record("sound",
                          readings["sound"][1].patient_id,
                          readings["sound"][1].values,
                          readings["sound"][1].timestamp) >>
             /\ abnormal_detected'
             /\ robot_moved'
             /\ mqtt' = <<MoveMessage, AlertMessage>>
       /\ (/\ Len(mqtt) = 2
           /\ IsPass) =>
             /\ log'.reads = 0
             /\ log'.inserted = <<>>
             /\ log'.published = 0
             /\ anomalies' = anomalies
             /\ mqtt' = mqtt]_vars

\* pass 1 fired on the first reading and pass 2 was suppressed
C9_Witness ==
    /\ passes = 1
    /\ Len(anomalies) = 2
    /\ anomalies[1].detection_method = IsolationForest
    /\ anomalies[2].detection_method = KalmanFilterMethod
    /\ anomalies[1].rms = <<1, 20>>
    /\ mqtt = <<MoveMessage, AlertMessage>>
    /\ abnormal_detected
    /\ log.sensor = "sound"
    /\ log.outcome = "suppressed"

-----------------------------------------------------------------------------
(* C10: with the measurement held constant, the residual after each         *)
(* predict-then-update step is at most the residual after the step before,  *)
(* strictly less while that one is not zero, and at most half of it, from   *)
(* every initial estimate, with Q = 0.05, R = 0.1 and P = 1 at the start.   *)
C10_ResidualDecreases ==
    \A i \in 2..Len(residuals) :
        /\ RatLeq(residuals[i], residuals[i - 1])
        /\ RatLess(Zero, residuals[i - 1]) =>
              RatLess(residuals[i], residuals[i - 1])
        /\ RatLeq(RatAdd(residuals[i], residuals[i]), residuals[i - 1])

\* three steps were taken and the residual is still not zero
C10_Witness ==
    /\ Len(residuals) >= 3
    /\ RatLess(Zero, residuals[3])
    /\ RatLess(residuals[3], residuals[2])
    /\ RatLess(residuals[2], residuals[1])

-----------------------------------------------------------------------------
\* the messages of a topic, as positions in the channel
PublishedOn(channel, topic) ==
    {i \in 1..Len(channel) : channel[i].topic = topic}

(* C11: when calls of run_detection that all satisfy the firing condition    *)
(* are interleaved anywhere between the test of the latch (line 304) and its *)
(* assignment (lines 305-306), the move command and the alert are each       *)
(* published at most once.                                                   *)
C11_InterleavedPassesFireOnce ==
    /\ Cardinality(PublishedOn(mqtt, "robot/move")) <= 1
    /\ Cardinality(PublishedOn(mqtt, "web/alert")) <= 1

-----------------------------------------------------------------------------
(* C12: a sound pass entered with the latch open in which both detectors    *)
(* confirmed ends with the latch fired and has published the move command   *)
(* and then the alert, once each; after any step each topic holds at most   *)
(* one message.                                                             *)
C12_BothConfirmFiresAndPublishesBoth ==
    [][/\ (/\ IsPass
           /\ log'.sensor = "sound"
           /\ ~log'.latch_at_entry
           /\ log'.isolation_forest_abnormal
           /\ log'.kalman_filter_abnormal) =>
             /\ abnormal_detected'
             /\ log'.published = 2
             /\ mqtt' = mqtt \o <<MoveMessage, AlertMessage>>
       /\ Cardinality(PublishedOn(mqtt', "robot/move")) <= 1
       /\ Cardinality(PublishedOn(mqtt', "web/alert")) <= 1]_vars

-----------------------------------------------------------------------------
\* val lies in the closed interval from lo to hi
Within(val, lo, hi) == RatLeq(lo, val) /\ RatLeq(val, hi)

\* the reading of the last pass has a row of the given method in the table
Recorded(method) ==
    RecordsBy(anomalies, log.row[1].timestamp, log.sensor, method) # {}

(* C13: in a pass that got through the forest branch, for sound the forest  *)
(* is counted abnormal, and its row is in the table, exactly when the       *)
(* verdict is outlier and rms is outside [0.01, 0.03] and zcr is outside    *)
(* [0.003, 0.02]; with an inlier verdict it is never counted abnormal and   *)
(* has no row, for sound and for light.                                     *)
C13_ForestConfirmsOutsideBandsOnly ==
    log.kf_steps > 0 =>
        /\ log.sensor = "sound" =>
              LET confirmed ==
                      /\ log.row[1].pred = Outlier
                      /\ ~Within(log.row[1].values[1], <<1, 100>>, <<3, 100>>)
                      /\ ~Within(log.row[1].values[2], <<3, 1000>>, <<1, 50>>)
              IN  /\ log.isolation_forest_abnormal <=> confirmed
                  /\ Recorded(IsolationForest) <=> confirmed
        /\ log.row[1].pred = Inlier =>
              /\ ~log.isolation_forest_abnormal
              /\ ~Recorded(IsolationForest)

\* an outlier with rms on the upper end of its band and zcr outside its band
\* went through the forest branch and got no row from it
C13_Witness ==
    /\ log.sensor = "sound"
    /\ log.kf_steps > 0
    /\ log.row[1].pred = Outlier
    /\ log.row[1].values[1] = <<3, 100>>
    /\ ~Within(log.row[1].values[2], <<3, 1000>>, <<1, 50>>)
    /\ ~log.isolation_forest_abnormal
    /\ ~Recorded(IsolationForest)

-----------------------------------------------------------------------------
\* the last pass went through the Kalman branch without raising in it
KalmanBranchDone ==
    /\ log.kf_steps > 0
    /\ (log.outcome # "error" \/ log.fired)

\* the residual the last pass left for its i-th column
ResidualOf(i) == Residual(kalman_filters[log.sensor][i], log.row[1].values[i])

-----------------------------------------------------------------------------
(* C15: in a pass that advances the filters, for every column with value z, *)
(* estimate x and covariance P before the pass, and K = (P + Q)/(P + Q + R) *)
(* with Q = 0.05 and R = 0.1: predict keeps x and gives P + Q; the pass     *)
(* leaves the estimate x + K(z - x) and the covariance (1 - K)(P + Q); the  *)
(* residual it compares is |x + K(z - x) - z| = (1 - K)|z - x|, which is    *)
(* smaller than the innovation |z - x| whenever that is not zero.           *)
C15_ResidualTakenAfterCorrection ==
    [][(IsPass /\ log'.kf_steps > 0) =>
          \A i \in 1..log'.kf_steps :
              \A kf \in {kalman_filters[log'.sensor][i]} :
              \A after \in {kalman_filters'[log'.sensor][i]} :
              \A z \in {log'.row[1].values[i]} :
              \A PQ \in {RatAdd(kf.P, <<1, 20>>)} :
              \A S \in {RatAdd(PQ, <<1, 10>>)} :
              \A K \in {RatMul(PQ, RatInv(S))} :
              \A y \in {RatSub(z, kf.x)} :
              \A Ky \in {RatMul(K, y)} :
              \A rest \in {RatSub(One, K)} :
              \A residual \in {Residual(after, z)} :
                  /\ predict(kf).x = kf.x
                  /\ predict(kf).P = PQ
                  /\ after.x = RatAdd(kf.x, Ky)
                  /\ after.P = RatMul(rest, PQ)
                  /\ residual = RatMul(rest, RatAbs(y))
                  /\ y # Zero => RatLess(residual, RatAbs(y))]_vars

\* the innovation of rms (0.0115) is above the threshold, the residual after
\* the correction (0.001) is not, and the verdict is normal
C15_Witness ==
    /\ KalmanBranchDone
    /\ log.sensor = "sound"
    /\ log.row[1].values[1] = <<39, 2000>>
    /\ RatLess(<<1, 1000>>,
               RatAbs(RatSub(log.row[1].values[1],
                             InitialEstimate("sound", "rms"))))
    /\ passes = 1
    /\ ResidualOf(1) = <<1, 1000>>
    /\ ~log.kalman_filter_abnormal

-----------------------------------------------------------------------------
(* C16: a pass entered with the latch open whose latest row already has a   *)
(* row in the anomalies table for its (timestamp, sensor_type) leaves the   *)
(* table, both flags, every filter of every sensor and the channel as they  *)
(* were; it runs no detector, and unless the SELECT or the lookup raises it *)
(* returns at the lookup (line 216).                                        *)
C16_RecordedReadingChangesNothing ==
    [][(/\ IsPass
        /\ ~abnormal_detected
        /\ readings[log'.sensor] # <<>>
        /\ RecordsAt(anomalies, readings[log'.sensor][1].timestamp,
                     log'.sensor) # {}) =>
          /\ anomalies' = anomalies
          /\ abnormal_detected' = abnormal_detected
          /\ robot_moved' = robot_moved
          /\ kalman_filters' = kalman_filters
          /\ mqtt' = mqtt
          /\ ~log'.predicted
          /\ log'.kf_steps = 0
          /\ log'.outcome \in {"already recorded", "error"}]_vars

\* a light pass returned at the lookup: its reading has the forest's row only
C16_Witness ==
    /\ log.sensor = "light"
    /\ log.outcome = "already recorded"
    /\ ~abnormal_detected
    /\ Cardinality(RecordsAt(anomalies, log.row[1].timestamp, "light")) = 1
    /\ ~Recorded(KalmanFilterMethod)

-----------------------------------------------------------------------------
(* C17: a pass run again for the same sensor on the latest row the pass     *)
(* before it examined, neither of the two raising, leaves the anomalies     *)
(* table, both flags, the channel and the filters as the first run left     *)
(* them, also when the first run wrote no row for that reading.             *)
C17_RepeatedPassChangesNothing ==
    [][(/\ IsPass
        /\ log'.sensor = log.sensor
        /\ log.outcome \in {"suppressed", "no reading", "already recorded",
                            "done", "alarm already sent"}
        /\ log.row = readings[log.sensor]
        /\ log'.outcome # "error") =>
          /\ anomalies' = anomalies
          /\ abnormal_detected' = abnormal_detected
          /\ robot_moved' = robot_moved
          /\ mqtt' = mqtt
          /\ kalman_filters' = kalman_filters]_vars

-----------------------------------------------------------------------------
(* C18: a pass entered with the latch open whose latest row is not yet in   *)
(* the anomalies table and holds a value float() cannot take ends in the    *)
(* handler: it calls neither the forest nor a filter, writes no row,        *)
(* publishes nothing and leaves the flags and the filters as they were.     *)
C18_UncoercibleReadingAbortsThePassOnly ==
    [][(/\ IsPass
        /\ ~abnormal_detected
        /\ readings[log'.sensor] # <<>>
        /\ RecordsAt(anomalies, readings[log'.sensor][1].timestamp,
                     log'.sensor) = {}
        /\ \E i \in 1..Len(readings[log'.sensor][1].values) :
               readings[log'.sensor][1].values[i] = Null) =>
          /\ log'.outcome = "error"
          /\ ~log'.predicted
          /\ log'.kf_steps = 0
          /\ log'.inserted = <<>>
          /\ log'.published = 0
          /\ anomalies' = anomalies
          /\ kalman_filters' = kalman_filters
          /\ abnormal_detected' = abnormal_detected
          /\ robot_moved' = robot_moved
          /\ mqtt' = mqtt]_vars

\* a sound pass read the row with zcr NULL, looked it up and was aborted
C18_Witness ==
    /\ log.sensor = "sound"
    /\ log.outcome = "error"
    /\ log.lookups = 1
    /\ log.row # <<>>
    /\ log.row[1].values[2] = Null
    /\ ~log.predicted
    /\ anomalies = <<>>
    /\ kalman_filters = InitialFilters

-----------------------------------------------------------------------------
(* C19: no exception raised in a pass leaves run_detection, and after a     *)
(* pass that ended in the handler the main loop can still run a pass for    *)
(* every sensor that has a model.                                           *)
C19_FailureStaysInsideThePass ==
    /\ log.outcome # "propagated"
    /\ (log.outcome = "error" /\ passes < MaxPasses) =>
           \A s \in models :
               ENABLED (\E fault \in Faults : RunDetection(s, fault))

\* the light pass of a cycle failed in its Kalman branch (the forest's row
\* is there, the filter's is not, for light_level 40) and the sound pass of
\* the same cycle then ran to its end
C19_Witness ==
    /\ log.sensor = "sound"
    /\ log.outcome = "done"
    /\ log.kf_steps > 0
    /\ readings["light"] # <<>>
    /\ readings["light"][1].values = << <<40, 1>> >>
    /\ log.row[1].timestamp = readings["light"][1].timestamp
    /\ RecordsBy(anomalies, log.row[1].timestamp, "light",
                 IsolationForest) # {}
    /\ RecordsBy(anomalies, log.row[1].timestamp, "light",
                 KalmanFilterMethod) = {}

-----------------------------------------------------------------------------
\* the pass of this step advanced every filter of its sensor exactly once,
\* by predict() and then update() with the value of the filter's column
AdvancedOnce ==
    /\ Len(kalman_filters'[log'.sensor]) = Len(log'.row[1].values)
    /\ \A i \in 1..Len(log'.row[1].values) :
           \A before \in {predict(kalman_filters[log'.sensor][i])} :
               kalman_filters'[log'.sensor][i] =
                   update(before, log'.row[1].values[i])
    /\ \A s \in Sensors \ {log'.sensor} :
           kalman_filters'[s] = kalman_filters[s]

-----------------------------------------------------------------------------
\* the rows the last pass committed: the last Len(log.inserted) of the table
InsertedByLastPass ==
    {i \in 1..Len(anomalies) : i > Len(anomalies) - Len(log.inserted)}

(* C21: every row a pass inserts carries the patient_id, the sensor type    *)
(* and the timestamp of the row it examined and the name of the detector    *)
(* that confirmed it, and the value of every column of the sensor: rms and  *)
(* zcr under their names for sound, and light_level in one of the value     *)
(* fields of the table (db, rms, zcr) for light.                            *)
C21_RecordCarriesTheReading ==
    \A j \in InsertedByLastPass :
        /\ anomalies[j].patient_id = log.row[1].patient_id
        /\ anomalies[j].sensor_type = log.sensor
        /\ anomalies[j].timestamp = log.row[1].timestamp
        /\ anomalies[j].detection_method =
               log.inserted[j - (Len(anomalies) - Len(log.inserted))]
        /\ anomalies[j].detection_method \in Methods
        /\ IF log.sensor = "sound"
           THEN /\ anomalies[j].rms = log.row[1].values[1]
                /\ anomalies[j].zcr = log.row[1].values[2]
           ELSE log.row[1].values[1] \in
                    {anomalies[j].db, anomalies[j].rms, anomalies[j].zcr}

-----------------------------------------------------------------------------
(* C22: in every reachable state, for every timestamp and sensor type the   *)
(* table holds at most one row by each detection method and at most two     *)
(* rows in all, and every row is by one of the two methods; this covers     *)
(* the passes that raised at an INSERT or a commit and were taken again.    *)
C22_AtMostOneRecordPerMethod ==
    /\ \A i \in 1..Len(anomalies) : anomalies[i].detection_method \in Methods
    /\ \A t \in 1..LatestTimestamp : \A s \in Sensors :
          /\ \A m \in Methods :
                Cardinality(RecordsBy(anomalies, t, s, m)) <= 1
          /\ Cardinality(RecordsAt(anomalies, t, s)) <= 2
    /\ \A i \in 1..Len(anomalies) :
          anomalies[i].timestamp \in 1..LatestTimestamp

\* the loud sound row of the first cycle has the forest's row and no row of
\* the filters, which confirm it from their initial state: the pass raised
\* at the filters' INSERT or commit, and the pass taken again found the
\* forest's row and returned
C22_Witness ==
    /\ LoudSoundStored
    /\ readings["sound"][1].timestamp = 1
    /\ log.sensor = "sound"
    /\ log.outcome = "already recorded"
    /\ Cardinality(RecordsBy(anomalies, 1, "sound", IsolationForest)) = 1
    /\ RecordsBy(anomalies, 1, "sound", KalmanFilterMethod) = {}

-----------------------------------------------------------------------------
(* C23: whenever one of the flags is set, the table holds for one           *)
(* timestamp a sound row by the Isolation Forest and a sound row by the     *)
(* Kalman filter; in the state the firing pass leaves, also when its        *)
(* handler ran, they are the two rows of the reading the pass examined,     *)
(* committed by that pass in this order.                                    *)
C23_FiredLatchHasBothRecords ==
    /\ (abnormal_detected \/ robot_moved) =>
          \E t \in 1..LatestTimestamp : \A m \in Methods :
              RecordsBy(anomalies, t, "sound", m) # {}
    /\ log.fired =>
          /\ log.sensor = "sound"
          /\ log.inserted = <<IsolationForest, KalmanFilterMethod>>
          /\ \A m \in Methods :
                RecordsBy(anomalies, log.row[1].timestamp, "sound", m) # {}

\* the firing pass raised at its first publish: the handler rolled back and
\* both rows are in the table
C23_Witness ==
    /\ abnormal_detected
    /\ log.fired
    /\ log.outcome = "error"
    /\ log.published = 0
    /\ Cardinality(RecordsAt(anomalies, log.row[1].timestamp, "sound")) = 2

-----------------------------------------------------------------------------
(* C24: a message is published only with both flags already set; a firing   *)
(* pass whose publish raised leaves both flags set and fewer than two       *)
(* messages published; and with the flag set and fewer than two messages    *)
(* published, a pass for any sensor, whatever then fails, returns at the    *)
(* guard, publishes nothing and leaves the flags set.                       *)
C24_FailedPublishKeepsTheLatch ==
    /\ mqtt # <<>> => (abnormal_detected /\ robot_moved)
    /\ (log.fired /\ log.outcome = "error") =>
          /\ abnormal_detected
          /\ robot_moved
          /\ log.published < 2
          /\ Len(mqtt) = log.published
    /\ (abnormal_detected /\ Len(mqtt) < 2) =>
          \A s \in Sensors : \A fault \in Faults :
              \A r \in {run_detection(s, fault)} :
                  /\ r.log.outcome = "suppressed"
                  /\ r.mqtt = mqtt
                  /\ r.abnormal_detected
                  /\ r.robot_moved

\* a pass was suppressed after the firing pass raised at a publish: the
\* flags are set and the alert was never published
C24_Witness ==
    /\ abnormal_detected
    /\ robot_moved
    /\ log.outcome = "suppressed"
    /\ Len(mqtt) < 2
    /\ PublishedOn(mqtt, "web/alert") = {}

-----------------------------------------------------------------------------
(* C25: in every state the process reaches between two calls, robot_moved   *)
(* and abnormal_detected are equal; no call has ended in the branch that    *)
(* prints "Alarm already sent", and with a flag set no call made next, for  *)
(* any sensor and whatever fails in it, ends there.                         *)
C25_FlagsEqualAndBranchDead ==
    /\ robot_moved = abnormal_detected
    /\ log.outcome # "alarm already sent"
    /\ (robot_moved \/ abnormal_detected) =>
       \A s \in Sensors : \A fault \in Faults :
          \A r \in {run_detection(s, fault)} :
              /\ r.log.outcome # "alarm already sent"
              /\ r.robot_moved = r.abnormal_detected

\* both flags are set and a sound pass entered with the flag set has looked
\* at nothing, although the loud row is the latest one
C25_Witness ==
    /\ robot_moved
    /\ abnormal_detected
    /\ log.sensor = "sound"
    /\ log.latch_at_entry
    /\ LoudSoundStored
    /\ log.reads = 0

-----------------------------------------------------------------------------
\* the measurements on the scale of the one the estimator is fed
MeasurementsLike(z) ==
    IF z = Zero THEN {Zero}
    ELSE IF z \in LightMeasurements THEN LightMeasurements
    ELSE SoundMeasurements

(* C26: every estimator has Q = 0.05 and R = 0.1 and starts with P = 1; in  *)
(* every predict-then-update step, whatever the measurement, the gain is    *)
(* strictly between 0 and 1 and the covariance left by update() is          *)
(* strictly positive and strictly below R; so is the covariance after       *)
(* every step taken so far.  The next step is examined in every state that  *)
(* has one, for each measurement of the column's scale.                     *)
C26_GainAndCovarianceBounded ==
    /\ est.Q = <<1, 20>>
    /\ est.R = <<1, 10>>
    /\ residuals = <<>> => est.P = One
    /\ residuals # <<>> =>
          /\ RatLess(Zero, est.P)
          /\ RatLess(est.P, est.R)
    /\ Len(residuals) < MaxSteps =>
       \A p \in {predict(est)} : \A K \in {KalmanGain(p)} :
          /\ RatLess(Zero, K)
          /\ RatLess(K, One)
          /\ \A z \in MeasurementsLike(meas) :
                \A u \in {update(p, z)} :
                    /\ RatLess(Zero, u.P)
                    /\ RatLess(u.P, u.R)
                    /\ u.P = RatMul(RatSub(One, K), p.P)

\* three steps on the loud rms value from the estimate 0.008: the
\* covariance has come down from 1 to 241/4630, just above 0.05
C26_Witness ==
    /\ Len(residuals) = 3
    /\ meas = <<1, 20>>
    /\ RatLess(Zero, residuals[3])
    /\ RatLess(est.P, <<1, 10>>)
    /\ RatLess(<<1, 20>>, est.P)

====
